---- MODULE Spec2Model ----
(***************************************************************************)
(* streamlit_app.py: a Streamlit script.  Every page selection executes    *)
(* the script top to bottom: the import block (lines 6-18), the sidebar    *)
(* selectbox (64-69), the branch of the selected page (163-725) and the    *)
(* footer (727-733).  The three helpers create_flowchart,                  *)
(* create_text_flowchart and create_simple_chart (71-149) are modelled as  *)
(* operators computed the way the code computes them.                      *)
(*                                                                         *)
(* A plotly Figure is a record [type |-> "Figure", data |-> traces,        *)
(* layout |-> ...]; a str is a record [type |-> "str", lines |-> ...]      *)
(* whose lines are the "\n"-terminated lines of the Python string; a       *)
(* raised exception is [type |-> "raise", exc |-> name].  The box-drawing  *)
(* glyphs and the code fence of the text fallback are written in ASCII.    *)
(***************************************************************************)
EXTENDS Integers, Sequences, FiniteSets, TLC

VARIABLES
    env,                \* modules the environment can currently provide
    sys_modules,        \* modules already loaded by the process (import cache)
    module_globals,     \* the script's global flags: name -> BOOLEAN, bound names only
    pc,                 \* position of the script / of the call under check
    page,               \* value returned by st.sidebar.selectbox
    nodes, connections, title,  \* arguments of create_flowchart
    fig,                \* value returned (or exception raised) by the last call
    flowchart_text,     \* value returned by a direct create_text_flowchart call
    data, chart_type,   \* arguments of create_simple_chart
    displayed           \* display calls made by the current script run

vars == <<env, sys_modules, module_globals, pc, page, nodes, connections, title,
          fig, flowchart_text, data, chart_type, displayed>>

----------------------------------------------------------------------------
(* Bounds of the model *)

MaxNodes == 2
MaxEdges == 2
GridMaxNodes == 8
MaxSeries == 2

----------------------------------------------------------------------------
(* Values *)

NoValue == [type |-> "none"]

Raise(e) == [type |-> "raise", exc |-> e]

PlotlyModules == <<"plotly.graph_objects", "plotly.subplots">>

MatplotlibModules == <<"matplotlib.pyplot", "matplotlib.patches">>

Modules == {PlotlyModules[i] : i \in 1..2} \cup {MatplotlibModules[i] : i \in 1..2}

NoGlobals == [n \in {} |-> TRUE]

----------------------------------------------------------------------------
(* Lines 6-18: the import block *)

\* A plausible slip: no import cache, every import asks the environment again.
TryImportUncached(m, e, loaded) ==
    IF m \in e
    THEN [ok |-> TRUE, loaded |-> loaded \cup {m}]
    ELSE [ok |-> FALSE, loaded |-> loaded]

\* One import statement: it succeeds when the module is cached in sys.modules
\* or the environment provides it, and a successful import is cached.
TryImport(m, e, loaded) ==
    IF m \in loaded \/ m \in e
    THEN [ok |-> TRUE, loaded |-> loaded \cup {m}]
    ELSE [ok |-> FALSE, loaded |-> loaded]

\* The statements of a try body, in order; the first ImportError leaves the body.
RECURSIVE TryImports(_, _, _)
TryImports(ms, e, loaded) ==
    IF ms = <<>> THEN [ok |-> TRUE, loaded |-> loaded]
    ELSE LET r == TryImport(Head(ms), e, loaded)
         IN IF r.ok THEN TryImports(Tail(ms), e, r.loaded) ELSE r

\* A plausible slip: matplotlib tried first, plotly as the fallback.
ImportBlockMatplotlibFirst(e, loaded) ==
    LET m == TryImports(MatplotlibModules, e, loaded)
    IN IF m.ok
       THEN [globals |-> [PLOTLY_AVAILABLE |-> FALSE, MATPLOTLIB_AVAILABLE |-> TRUE],
             loaded |-> m.loaded]
       ELSE LET p == TryImports(PlotlyModules, e, m.loaded)
            IN [globals |-> [PLOTLY_AVAILABLE |-> p.ok, MATPLOTLIB_AVAILABLE |-> FALSE],
                loaded |-> p.loaded]

ImportBlock(e, loaded) ==
    LET p == TryImports(PlotlyModules, e, loaded)
    IN IF p.ok
       THEN [globals |-> [PLOTLY_AVAILABLE |-> TRUE], loaded |-> p.loaded]
       ELSE LET m == TryImports(MatplotlibModules, e, p.loaded)
            IN [globals |-> [PLOTLY_AVAILABLE |-> FALSE, MATPLOTLIB_AVAILABLE |-> m.ok],
                loaded |-> m.loaded]

PLOTLY_AVAILABLE == module_globals.PLOTLY_AVAILABLE

\* MATPLOTLIB_AVAILABLE is bound only on the except path (lines 13-18).
MatplotlibRecorded ==
    "MATPLOTLIB_AVAILABLE" \in DOMAIN module_globals /\ module_globals.MATPLOTLIB_AVAILABLE

\* The recorded backend, read off the two flags.
Backend(g) ==
    IF "PLOTLY_AVAILABLE" \notin DOMAIN g THEN "unrecorded"
    ELSE IF g.PLOTLY_AVAILABLE THEN "Rich"
    ELSE IF "MATPLOTLIB_AVAILABLE" \in DOMAIN g /\ g.MATPLOTLIB_AVAILABLE THEN "Simple"
    ELSE "None"

----------------------------------------------------------------------------
(* Lines 71-113: create_flowchart *)

StopIteration == -1

\* next(i for i, (node, _) in enumerate(nodes) if node == name), scanning from
\* index i: the 0-based index of the first match, StopIteration when exhausted.
RECURSIVE NextMatch(_, _, _)
NextMatch(ns, name, i) ==
    IF i >= Len(ns) THEN StopIteration
    ELSE IF ns[i + 1][1] = name THEN i
    ELSE NextMatch(ns, name, i + 1)

\* A plausible slip: the last matching node wins (a dict built from the list).
RECURSIVE LastMatchFrom(_, _, _)
LastMatchFrom(ns, name, i) ==
    IF i < 0 THEN StopIteration
    ELSE IF ns[i + 1][1] = name THEN i
    ELSE LastMatchFrom(ns, name, i - 1)

LastMatch(ns, name) == LastMatchFrom(ns, name, Len(ns) - 1)

FirstMatch(ns, name) == NextMatch(ns, name, 0)

\* A plausible slip: three columns instead of four.
NodeTraceThreeColumns(i, node, color) ==
    [type |-> "Scatter", x |-> <<i % 3>>, y |-> <<i \div 3>>,
     mode |-> "markers+text", marker |-> [size |-> 80, color |-> color],
     text |-> node, textposition |-> "middle center", name |-> node,
     showlegend |-> FALSE]

\* Lines 78-87: the marker trace of the node at 0-based index i.
NodeTrace(i, node, color) ==
    [type |-> "Scatter", x |-> <<i % 4>>, y |-> <<i \div 4>>,
     mode |-> "markers+text", marker |-> [size |-> 80, color |-> color],
     text |-> node, textposition |-> "middle center", name |-> node,
     showlegend |-> FALSE]

\* Lines 94-100: the line trace between two node indices.
ConnectionTrace(start_idx, end_idx) ==
    [type |-> "Scatter",
     x |-> <<start_idx % 4, end_idx % 4>>,
     y |-> <<start_idx \div 4, end_idx \div 4>>,
     mode |-> "lines", line |-> [color |-> "gray", width |-> 2],
     showlegend |-> FALSE]

\* Lines 77-87: one marker trace per node, in node order.
AddNodes(ns) == [i \in 1..Len(ns) |-> NodeTrace(i - 1, ns[i][1], ns[i][2])]

\* A plausible slip: a connection whose endpoint is missing is skipped.
RECURSIVE AddConnectionsSkipping(_, _, _)
AddConnectionsSkipping(traces, ns, cs) ==
    IF cs = <<>> THEN [type |-> "traces", data |-> traces]
    ELSE LET start_idx == FirstMatch(ns, Head(cs)[1])
             end_idx == FirstMatch(ns, Head(cs)[2])
         IN IF start_idx = StopIteration \/ end_idx = StopIteration
            THEN AddConnectionsSkipping(traces, ns, Tail(cs))
            ELSE AddConnectionsSkipping(
                     Append(traces, ConnectionTrace(start_idx, end_idx)), ns, Tail(cs))

\* Lines 90-100: one line trace per connection, in connection order; an
\* endpoint without a matching node lets StopIteration escape the function.
RECURSIVE AddConnections(_, _, _)
AddConnections(traces, ns, cs) ==
    IF cs = <<>> THEN [type |-> "traces", data |-> traces]
    ELSE LET start_idx == FirstMatch(ns, Head(cs)[1])
             end_idx == FirstMatch(ns, Head(cs)[2])
         IN IF start_idx = StopIteration \/ end_idx = StopIteration
            THEN Raise("StopIteration")
            ELSE AddConnections(Append(traces, ConnectionTrace(start_idx, end_idx)),
                                ns, Tail(cs))

----------------------------------------------------------------------------
(* Lines 115-133: create_text_flowchart *)

Heading == "## "
Fence == "~~~"
FirstBullet == "+- "
Bullet == "|- "
Arrow == "|  +-> "

\* A plausible slip: the arrows listed under the node an edge points to.
RECURSIVE ConnectionLinesByEnd(_, _)
ConnectionLinesByEnd(node, cs) ==
    IF cs = <<>> THEN <<>>
    ELSE (IF Head(cs)[2] = node THEN <<Arrow \o Head(cs)[1]>> ELSE <<>>)
         \o ConnectionLinesByEnd(node, Tail(cs))

\* Lines 128-130: the arrow lines of one node, in connection order.
RECURSIVE ConnectionLines(_, _)
ConnectionLines(node, cs) ==
    IF cs = <<>> THEN <<>>
    ELSE (IF Head(cs)[1] = node THEN <<Arrow \o Head(cs)[2]>> ELSE <<>>)
         \o ConnectionLines(node, Tail(cs))

\* Lines 121-130: the loop over the nodes, from 0-based index i.
RECURSIVE NodeLines(_, _, _)
NodeLines(ns, cs, i) ==
    IF i >= Len(ns) THEN <<>>
    ELSE <<(IF i = 0 THEN FirstBullet ELSE Bullet) \o ns[i + 1][1]>>
         \o ConnectionLines(ns[i + 1][1], cs)
         \o NodeLines(ns, cs, i + 1)

create_text_flowchart(ns, cs, t) ==
    [type |-> "str",
     lines |-> <<Heading \o t, "", Fence>> \o NodeLines(ns, cs, 0) \o <<Fence>>]

\* Lines 102-108: update_layout.
FlowchartLayout(t) ==
    [title |-> [text |-> t, font |-> [size |-> 16]], height |-> 400,
     margin |-> [l |-> 20, r |-> 20, t |-> 60, b |-> 20]]

\* A plausible slip: one module-level figure shared by all calls, so the
\* traces of an earlier render stay in the next one.
create_flowchart_shared_figure(ns, cs, t) ==
    IF PLOTLY_AVAILABLE
    THEN LET prior == IF fig.type = "Figure" THEN fig.data ELSE <<>>
             r == AddConnections(prior \o AddNodes(ns), ns, cs)
         IN IF r.type = "raise" THEN r
            ELSE [type |-> "Figure", data |-> r.data, layout |-> FlowchartLayout(t)]
    ELSE create_text_flowchart(ns, cs, t)

create_flowchart(ns, cs, t) ==
    IF PLOTLY_AVAILABLE
    THEN LET r == AddConnections(AddNodes(ns), ns, cs)
         IN IF r.type = "raise" THEN r
            ELSE [type |-> "Figure", data |-> r.data, layout |-> FlowchartLayout(t)]
    ELSE create_text_flowchart(ns, cs, t)

----------------------------------------------------------------------------
(* Lines 135-149: create_simple_chart.  A pandas Series is the record       *)
(* [type |-> "Series", items |-> sequence of <<label, value>>]: data.index  *)
(* are the labels, data.values the values, both in the Series' order.       *)

Series(items) == [type |-> "Series", items |-> items]

Index(d) == [i \in 1..Len(d.items) |-> d.items[i][1]]

Values(d) == [i \in 1..Len(d.items) |-> d.items[i][2]]

Reverse(s) == [i \in 1..Len(s) |-> s[Len(s) + 1 - i]]

\* A plausible slip: the labels listed from the last entry to the first.
ChartTraceReversed(d, kind) ==
    IF kind = "bar" THEN [type |-> "Bar", x |-> Reverse(Index(d)), y |-> Values(d)]
    ELSE IF kind = "line"
    THEN [type |-> "Scatter", x |-> Reverse(Index(d)), y |-> Values(d),
          mode |-> "lines+markers"]
    ELSE [type |-> "Pie", labels |-> Reverse(Index(d)), values |-> Values(d)]

\* Lines 138-143: the trace of a recognised chart_type.
ChartTrace(d, kind) ==
    IF kind = "bar" THEN [type |-> "Bar", x |-> Index(d), y |-> Values(d)]
    ELSE IF kind = "line"
    THEN [type |-> "Scatter", x |-> Index(d), y |-> Values(d),
          mode |-> "lines+markers"]
    ELSE [type |-> "Pie", labels |-> Index(d), values |-> Values(d)]

\* With an unrecognised chart_type no branch binds fig, and line 145 raises
\* UnboundLocalError; without plotly the Series is returned as it came.
create_simple_chart(d, kind, t) ==
    IF PLOTLY_AVAILABLE
    THEN IF kind \in {"bar", "line", "pie"}
         THEN [type |-> "Figure", data |-> <<ChartTrace(d, kind)>>,
               layout |-> [title |-> t, height |-> 300]]
         ELSE Raise("UnboundLocalError")
    ELSE d

----------------------------------------------------------------------------
(* Lines 64-69 and 163-725: the pages and their literal diagrams *)

Pages ==
    <<"Executive Overview", "1. AI Email Assistant", "2. Smart Lead Router",
      "3. OCR + Slack AI Bot", "4. AI Blog Writing Tool",
      "5. Alibaba Lead Classifier", "6. Outlook Email Classifier">>

EmailAssistant_nodes ==
    << <<"Gmail API", "#1f77b4">>,
       <<"Fetch Emails", "#ff7f0e">>,
       <<"AI Classifier", "#2ca02c">>,
       <<"Lead Scoring", "#d62728">>,
       <<"Google Sheets", "#9467bd">>,
       <<"Streamlit UI", "#8c564b">> >>

EmailAssistant_connections ==
    << <<"Gmail API", "Fetch Emails">>,
       <<"Fetch Emails", "AI Classifier">>,
       <<"AI Classifier", "Lead Scoring">>,
       <<"Lead Scoring", "Google Sheets">>,
       <<"Google Sheets", "Streamlit UI">> >>

EmailAssistant_title == "AI Email Assistant Workflow"

LeadRouter_nodes ==
    << <<"Web Form", "#1f77b4">>,
       <<"Email Input", "#ff7f0e">>,
       <<"Webhook", "#2ca02c">>,
       <<"n8n Router", "#d62728">>,
       <<"AI Intent Detection", "#9467bd">>,
       <<"Slack Notification", "#8c564b">>,
       <<"Google Sheets", "#e377c2">>,
       <<"HubSpot CRM", "#7f7f7f">> >>

LeadRouter_connections ==
    << <<"Web Form", "n8n Router">>,
       <<"Email Input", "n8n Router">>,
       <<"Webhook", "n8n Router">>,
       <<"n8n Router", "AI Intent Detection">>,
       <<"AI Intent Detection", "Slack Notification">>,
       <<"AI Intent Detection", "Google Sheets">>,
       <<"AI Intent Detection", "HubSpot CRM">> >>

LeadRouter_title == "Smart Lead Router Architecture"

OcrSlackBot_nodes ==
    << <<"Document Upload", "#1f77b4">>,
       <<"Streamlit UI", "#ff7f0e">>,
       <<"OCR Engine", "#2ca02c">>,
       <<"Text Extraction", "#d62728">>,
       <<"AI Summarizer", "#9467bd">>,
       <<"Slack Bot", "#8c564b">>,
       <<"Q&A Interface", "#e377c2">> >>

OcrSlackBot_connections ==
    << <<"Document Upload", "Streamlit UI">>,
       <<"Streamlit UI", "OCR Engine">>,
       <<"OCR Engine", "Text Extraction">>,
       <<"Text Extraction", "AI Summarizer">>,
       <<"AI Summarizer", "Slack Bot">>,
       <<"Slack Bot", "Q&A Interface">> >>

OcrSlackBot_title == "OCR + Slack Bot Workflow"

BlogWriter_nodes ==
    << <<"Topic Input", "#1f77b4">>,
       <<"AI Research", "#ff7f0e">>,
       <<"Training Samples", "#2ca02c">>,
       <<"Content Generator", "#d62728">>,
       <<"Metadata Engine", "#9467bd">>,
       <<"Streamlit UI", "#8c564b">>,
       <<"Export Options", "#e377c2">>,
       <<"CMS Integration", "#7f7f7f">> >>

\* A plausible slip: an endpoint misspelt in one connection.
BlogWriter_connections_misspelt ==
    << <<"Topic Input", "AI Research">>,
       <<"Training Samples", "Content Generator">>,
       <<"AI Research", "Content Generater">>,
       <<"Content Generator", "Metadata Engine">>,
       <<"Metadata Engine", "Streamlit UI">>,
       <<"Streamlit UI", "Export Options">>,
       <<"Export Options", "CMS Integration">> >>

BlogWriter_connections ==
    << <<"Topic Input", "AI Research">>,
       <<"Training Samples", "Content Generator">>,
       <<"AI Research", "Content Generator">>,
       <<"Content Generator", "Metadata Engine">>,
       <<"Metadata Engine", "Streamlit UI">>,
       <<"Streamlit UI", "Export Options">>,
       <<"Export Options", "CMS Integration">> >>

BlogWriter_title == "AI Blog Writing Tool Pipeline"

AlibabaClassifier_nodes ==
    << <<"Alibaba Platform", "#1f77b4">>,
       <<"Web Scraper", "#ff7f0e">>,
       <<"Data Extraction", "#2ca02c">>,
       <<"LLM Classifier", "#d62728">>,
       <<"Intent Analysis", "#9467bd">>,
       <<"Lead Scoring", "#8c564b">>,
       <<"Google Sheets", "#e377c2">> >>

AlibabaClassifier_connections ==
    << <<"Alibaba Platform", "Web Scraper">>,
       <<"Web Scraper", "Data Extraction">>,
       <<"Data Extraction", "LLM Classifier">>,
       <<"LLM Classifier", "Intent Analysis">>,
       <<"Intent Analysis", "Lead Scoring">>,
       <<"Lead Scoring", "Google Sheets">> >>

AlibabaClassifier_title == "Alibaba Lead Classifier System"

OutlookClassifier_nodes ==
    << <<"Outlook Email", "#1f77b4">>,
       <<"Graph API", "#ff7f0e">>,
       <<"Email Threads", "#2ca02c">>,
       <<"Context Analysis", "#d62728">>,
       <<"LLM Classifier", "#9467bd">>,
       <<"Streamlit Dashboard", "#8c564b">>,
       <<"Google Sheets", "#e377c2">> >>

OutlookClassifier_connections ==
    << <<"Outlook Email", "Graph API">>,
       <<"Graph API", "Email Threads">>,
       <<"Email Threads", "Context Analysis">>,
       <<"Context Analysis", "LLM Classifier">>,
       <<"LLM Classifier", "Streamlit Dashboard">>,
       <<"Streamlit Dashboard", "Google Sheets">> >>

OutlookClassifier_title == "Outlook Email Classifier Flow"

\* The nodes, connections and title the branch of page p hands to create_flowchart.
PageDiagram(p) ==
    CASE p = Pages[2] -> [nodes |-> EmailAssistant_nodes,
                          connections |-> EmailAssistant_connections,
                          title |-> EmailAssistant_title]
      [] p = Pages[3] -> [nodes |-> LeadRouter_nodes,
                          connections |-> LeadRouter_connections,
                          title |-> LeadRouter_title]
      [] p = Pages[4] -> [nodes |-> OcrSlackBot_nodes,
                          connections |-> OcrSlackBot_connections,
                          title |-> OcrSlackBot_title]
      [] p = Pages[5] -> [nodes |-> BlogWriter_nodes,
                          connections |-> BlogWriter_connections,
                          title |-> BlogWriter_title]
      [] p = Pages[6] -> [nodes |-> AlibabaClassifier_nodes,
                          connections |-> AlibabaClassifier_connections,
                          title |-> AlibabaClassifier_title]
      [] p = Pages[7] -> [nodes |-> OutlookClassifier_nodes,
                          connections |-> OutlookClassifier_connections,
                          title |-> OutlookClassifier_title]

\* A slip that would break the agreement: the call site asks whether any chart
\* library was recorded, while create_flowchart asks for plotly.
DisplayFlowchartAnyBackend(artifact) ==
    IF Backend(module_globals) # "None"
    THEN [call |-> "st.plotly_chart", arg |-> artifact]
    ELSE [call |-> "st.markdown", arg |-> artifact]

\* Lines 274-277 (and the five sites like it): the display call for the artifact.
DisplayFlowchart(artifact) ==
    IF PLOTLY_AVAILABLE
    THEN [call |-> "st.plotly_chart", arg |-> artifact]
    ELSE [call |-> "st.markdown", arg |-> artifact]

\* One of the chart sites that follow the flowchart on a page: a plotly
\* figure under PLOTLY_AVAILABLE, else a subheader and a Streamlit fallback.
ChartSite(t, fallback_title, fallback) ==
    IF PLOTLY_AVAILABLE
    THEN <<[call |-> "st.plotly_chart", arg |-> t]>>
    ELSE <<[call |-> "st.subheader", arg |-> fallback_title],
           [call |-> fallback, arg |-> fallback_title]>>

\* Lines 368-392, 515-539, 599-630, 693-725: the chart sites of page p, in order.
PageCharts(p) ==
    CASE p = Pages[3] ->
            ChartSite("Leads by Industry", "Leads by Industry", "st.bar_chart")
            \o ChartSite("Conversion Rate by Industry (%)",
                         "Conversion Rate by Industry (%)", "st.bar_chart")
      [] p = Pages[5] ->
            ChartSite("Monthly Blog Generation", "Monthly Blog Generation",
                      "st.line_chart")
            \o ChartSite("Average Word Count", "Average Word Count", "st.bar_chart")
      [] p = Pages[6] ->
            ChartSite("Leads by Region", "Leads by Region", "st.write")
            \o ChartSite("Quality Score by Region", "Quality Scores", "st.write")
      [] p = Pages[7] ->
            ChartSite("Processing Volume Trends", "Processing Volume Trends",
                      "st.line_chart")
            \o ChartSite("Classification Accuracy Trend",
                         "Classification Accuracy Trend", "st.line_chart")
      [] OTHER -> <<>>

\* Lines 727-733: the footer.
FooterCalls ==
    <<[call |-> "st.markdown", arg |-> "---"],
      [call |-> "st.markdown", arg |-> "footer"]>>

----------------------------------------------------------------------------
(* The script as a state machine *)

NoSeries == Series(<<>>)

Init ==
    /\ env \in SUBSET Modules
    /\ sys_modules = {}
    /\ module_globals = NoGlobals
    /\ pc = "idle"
    /\ page = Pages[1]
    /\ nodes = <<>> /\ connections = <<>> /\ title = ""
    /\ fig = NoValue /\ flowchart_text = NoValue
    /\ data = NoSeries /\ chart_type = "bar"
    /\ displayed = <<>>

\* The environment gains or loses a module (a package is installed or removed).
EnvChange ==
    /\ \E m \in Modules :
          env' = IF m \in env THEN env \ {m} ELSE env \cup {m}
    /\ UNCHANGED <<sys_modules, module_globals, pc, page, nodes, connections, title,
                   fig, flowchart_text, data, chart_type, displayed>>

\* A page selection starts an execution of the script in a fresh namespace:
\* lines 6-18 bind the flags, lines 64-69 read the selection.
RunImports ==
    /\ pc = "idle"
    /\ LET r == ImportBlock(env, sys_modules)
       IN /\ module_globals' = r.globals
          /\ sys_modules' = r.loaded
    /\ \E i \in 1..Len(Pages) : page' = Pages[i]
    /\ nodes' = <<>> /\ connections' = <<>> /\ title' = ""
    /\ fig' = NoValue
    /\ displayed' = <<>>
    /\ pc' = "page"
    /\ UNCHANGED <<env, flowchart_text, data, chart_type>>

\* Lines 163-229: the Executive Overview formats int(metrics[...]) of the
\* "N/A" strings of generate_sample_metrics, which raises ValueError.
OverviewBranch ==
    /\ pc = "page"
    /\ page = Pages[1]
    /\ displayed' = Append(displayed, [call |-> "exception", arg |-> "ValueError"])
    /\ pc' = "idle"
    /\ UNCHANGED <<env, sys_modules, module_globals, page, nodes, connections, title,
                   fig, flowchart_text, data, chart_type>>

\* Lines 231-725: a project page builds its literal diagram, calls
\* create_flowchart, displays the artifact and then shows its charts.
ProjectBranch ==
    /\ pc = "page"
    /\ page # Pages[1]
    /\ LET d == PageDiagram(page)
           artifact == create_flowchart(d.nodes, d.connections, d.title)
       IN /\ nodes' = d.nodes
          /\ connections' = d.connections
          /\ title' = d.title
          /\ fig' = artifact
          /\ IF artifact.type = "raise"
             THEN /\ displayed' = Append(displayed,
                                         [call |-> "exception", arg |-> artifact.exc])
                  /\ pc' = "idle"
             ELSE /\ displayed' = Append(displayed, DisplayFlowchart(artifact))
                                   \o PageCharts(page)
                  /\ pc' = "footer"
    /\ UNCHANGED <<env, sys_modules, module_globals, page, flowchart_text, data,
                   chart_type>>

Footer ==
    /\ pc = "footer"
    /\ displayed' = displayed \o FooterCalls
    /\ pc' = "idle"
    /\ UNCHANGED <<env, sys_modules, module_globals, page, nodes, connections, title,
                   fig, flowchart_text, data, chart_type>>

Next ==
    \/ EnvChange
    \/ RunImports
    \/ OverviewBranch
    \/ ProjectBranch
    \/ Footer

Spec == Init /\ [][Next]_vars


----------------------------------------------------------------------------
(* The helpers called directly, on every argument of a bounded set *)

SeqsUpTo(S, n) == UNION {[1..k -> S] : k \in 0..n}

Names == {"A", "B"}
Colors == {"#1f77b4", "#ff7f0e"}
Titles == {"Workflow", "Pipeline"}
Labels == {"X", "Y"}
Numbers == {10, 20}
ChartTypes == {"bar", "line", "pie", "scatter"}

\* Environments with neither library, matplotlib alone, and both.
StartEnvs == {{}, {MatplotlibModules[i] : i \in 1..2}, Modules}

\* The process after its import block ran in environment e.
Imported(e) ==
    /\ env = e
    /\ sys_modules = ImportBlock(e, {}).loaded
    /\ module_globals = ImportBlock(e, {}).globals
    /\ page = Pages[1]
    /\ displayed = <<>>
    /\ pc = "call"
    /\ fig = NoValue /\ flowchart_text = NoValue

InitFlow ==
    /\ \E e \in StartEnvs : Imported(e)
    /\ nodes \in SeqsUpTo(Names \X Colors, MaxNodes)
    /\ connections \in SeqsUpTo(Names \X Names, MaxEdges)
    /\ title = "Workflow"
    /\ data = NoSeries /\ chart_type = "bar"

\* Long node lists over two nodes, for the grid.
InitGrid ==
    /\ \E e \in StartEnvs : Imported(e)
    /\ nodes \in SeqsUpTo({<<"A", "#1f77b4">>, <<"B", "#ff7f0e">>}, GridMaxNodes)
    /\ connections \in {<<>>, << <<"A", "A">>, <<"A", "B">> >>}
    /\ title \in Titles
    /\ data = NoSeries /\ chart_type = "bar"

InitChart ==
    /\ \E e \in StartEnvs : Imported(e)
    /\ nodes = <<>> /\ connections = <<>>
    /\ title = "Chart"
    /\ data \in {Series(s) : s \in SeqsUpTo(Labels \X Numbers, MaxSeries)}
    /\ chart_type \in ChartTypes

CallCreateFlowchart ==
    /\ pc = "call"
    /\ fig' = create_flowchart(nodes, connections, title)
    /\ pc' = "flowchart"
    /\ UNCHANGED <<env, sys_modules, module_globals, page, nodes, connections, title,
                   flowchart_text, data, chart_type, displayed>>

CallCreateTextFlowchart ==
    /\ pc = "flowchart"
    /\ flowchart_text' = create_text_flowchart(nodes, connections, title)
    /\ pc' = "text"
    /\ UNCHANGED <<env, sys_modules, module_globals, page, nodes, connections, title,
                   fig, data, chart_type, displayed>>

CallCreateSimpleChart ==
    /\ pc = "call"
    /\ fig' = create_simple_chart(data, chart_type, title)
    /\ pc' = "chart"
    /\ UNCHANGED <<env, sys_modules, module_globals, page, nodes, connections, title,
                   flowchart_text, data, chart_type, displayed>>

NextFlow ==
    \/ CallCreateFlowchart
    \/ CallCreateTextFlowchart

NextChart == CallCreateSimpleChart

SpecFlow == InitFlow /\ [][NextFlow]_vars

SpecGrid == InitGrid /\ [][NextFlow]_vars

SpecChart == InitChart /\ [][NextChart]_vars


----------------------------------------------------------------------------
(* Properties of the import block, under Spec *)

Acquirable(ms) == \A i \in DOMAIN ms : ms[i] \in env \cup sys_modules

Rank(b) == CASE b = "Rich" -> 2 [] b = "Simple" -> 1 [] OTHER -> 0

\* C1: the import block records Rich whenever plotly can be acquired, whatever
\* matplotlib's availability; Simple exactly when plotly cannot and matplotlib
\* can; None exactly when neither can.  Once recorded, the backend is exactly
\* one of Rich, Simple, None and the two flags are never both true.
C1_BackendPriority ==
    /\ [](/\ pc # "idle" => Backend(module_globals) \in {"Rich", "Simple", "None"}
          /\ "PLOTLY_AVAILABLE" \in DOMAIN module_globals
                => ~(PLOTLY_AVAILABLE /\ MatplotlibRecorded))
    /\ [][pc = "idle" /\ pc' = "page" =>
            LET b == Backend(module_globals')
            IN /\ (b = "Rich") <=> Acquirable(PlotlyModules)
               /\ (b = "Simple") <=>
                      (~Acquirable(PlotlyModules) /\ Acquirable(MatplotlibModules))
               /\ (b = "None") <=>
                      (~Acquirable(PlotlyModules) /\ ~Acquirable(MatplotlibModules))]_vars

\* Rich was recorded by an execution that found both libraries available.
C1_Witness ==
    /\ pc = "page"
    /\ Backend(module_globals) = "Rich"
    /\ Acquirable(MatplotlibModules)
    /\ sys_modules = {PlotlyModules[i] : i \in 1..2}

\* C2 as stated: once a backend is recorded, no step changes it.
C2_WriteOnce ==
    [][Backend(module_globals) # "unrecorded"
          => Backend(module_globals') = Backend(module_globals)]_vars

\* C2 as amended: inside one execution of the script the flags do not change,
\* so every rendering call of that execution reads the backend its import
\* block recorded; from one execution to the next the recorded backend never
\* falls to a lower priority (loaded modules stay importable) but may rise.
C2_StableWithinRun ==
    [][/\ pc # "idle" => module_globals' = module_globals
       /\ Backend(module_globals) # "unrecorded"
             => Rank(Backend(module_globals')) >= Rank(Backend(module_globals))]_vars

\* A page rendered with Rich by a process that had earlier fallen back to matplotlib.
C2_Witness ==
    /\ pc = "footer"
    /\ fig.type = "Figure"
    /\ Backend(module_globals) = "Rich"
    /\ \A i \in 1..2 : MatplotlibModules[i] \in sys_modules


----------------------------------------------------------------------------
(* Properties of the helpers, under SpecFlow, SpecGrid and SpecChart *)

NodeNames == [i \in 1..Len(nodes) |-> nodes[i][1]]

NodesNamed(n) == Cardinality({i \in 1..Len(nodes) : nodes[i][1] = n})

\* Both endpoints of connection c name a node of the diagram.
Resolved(c) == NodesNamed(c[1]) > 0 /\ NodesNamed(c[2]) > 0

AllResolved == \A j \in 1..Len(connections) : Resolved(connections[j])

DistinctNames == \A n \in Names : NodesNamed(n) <= 1

Returned == pc \in {"flowchart", "text"}

MarkersOf(f, n) ==
    Cardinality({i \in 1..Len(f.data) :
                    f.data[i].mode = "markers+text" /\ f.data[i].text = n})

SegmentsOf(f) == Cardinality({i \in 1..Len(f.data) : f.data[i].mode = "lines"})

BulletsOf(t, n) ==
    Cardinality({i \in 1..Len(t.lines) : t.lines[i] \in {FirstBullet \o n, Bullet \o n}})

ArrowsTo(t, n) == Cardinality({i \in 1..Len(t.lines) : t.lines[i] = Arrow \o n})

RECURSIVE SumOver(_, _)
SumOver(f, n) == IF n = 0 THEN 0 ELSE f[n] + SumOver(f, n - 1)

\* Arrow lines to n that the text owes: per connection ending in n, one for
\* each node carrying the connection's source name.
ArrowsOwedTo(n) ==
    SumOver([j \in 1..Len(connections) |->
                IF connections[j][2] = n THEN NodesNamed(connections[j][1]) ELSE 0],
            Len(connections))

\* C3 as stated: a chart object under Rich and under Simple, a string only
\* under None.
C3_ArtifactKindByBackend ==
    Returned =>
        /\ Backend(module_globals) \in {"Rich", "Simple"} /\ fig.type # "raise"
              => fig.type = "Figure"
        /\ fig.type = "str" => Backend(module_globals) = "None"

\* C4 as stated: for any node list and any edge list, the chart that
\* create_flowchart produced and the text each hold every node once and every
\* edge once.
C4_ParityAnyDiagram ==
    pc = "text" /\ PLOTLY_AVAILABLE /\ fig.type = "Figure" =>
        /\ \A n \in Names : MarkersOf(fig, n) = NodesNamed(n)
                            /\ BulletsOf(flowchart_text, n) = NodesNamed(n)
        /\ SegmentsOf(fig) = Len(connections)
        /\ \A n \in Names :
              ArrowsTo(flowchart_text, n) =
                  Cardinality({j \in 1..Len(connections) : connections[j][2] = n})

\* C4 as amended: the chart and the text each hold every node exactly once;
\* the text prints an edge once per node that carries its source name; the
\* Rich renderer returns a chart with one segment per edge when every endpoint
\* names a node and raises StopIteration otherwise.  Hence for diagrams with
\* pairwise distinct node names and resolved endpoints both outputs hold every
\* node once and every edge once.
C4_ParityWellFormed ==
    pc = "text" =>
        /\ \A n \in Names :
              /\ BulletsOf(flowchart_text, n) = NodesNamed(n)
              /\ ArrowsTo(flowchart_text, n) = ArrowsOwedTo(n)
        /\ PLOTLY_AVAILABLE =>
              IF AllResolved
              THEN /\ fig.type = "Figure"
                   /\ Len(fig.data) = Len(nodes) + Len(connections)
                   /\ \A n \in Names : MarkersOf(fig, n) = NodesNamed(n)
                   /\ SegmentsOf(fig) = Len(connections)
              ELSE fig = Raise("StopIteration")
        /\ PLOTLY_AVAILABLE /\ AllResolved /\ DistinctNames =>
              /\ \A n \in Names : MarkersOf(fig, n) = BulletsOf(flowchart_text, n)
              /\ \A n \in Names :
                    ArrowsTo(flowchart_text, n) =
                        Cardinality({j \in 1..Len(connections) : connections[j][2] = n})
              /\ SegmentsOf(fig) = Len(flowchart_text.lines) - Len(nodes) - 4

C4_Witness ==
    /\ pc = "text"
    /\ PLOTLY_AVAILABLE
    /\ DistinctNames /\ AllResolved
    /\ Len(nodes) = 2 /\ Len(connections) = 2
    /\ fig.type = "Figure"

\* C5 as stated: a diagram with an edge endpoint that names no node ends in an
\* error, whatever the backend, and returns no artifact.
C5_UnresolvedEndpointFails ==
    Returned /\ ~AllResolved => fig.type = "raise"

\* C6: the marker of the node at 0-based index i sits at (i mod 4, i div 4):
\* x is in 0..3, the position decodes back to the index (so no two indices
\* share one), indices 0..7 fill the first two rows in row-major order, and
\* the marker carries that node's own name and color.
GridTable ==
    << <<0, 0>>, <<1, 0>>, <<2, 0>>, <<3, 0>>, <<0, 1>>, <<1, 1>>, <<2, 1>>, <<3, 1>> >>

C6_GridPosition ==
    Returned /\ fig.type = "Figure" =>
        \A i \in 1..Len(nodes) :
            LET tr == fig.data[i]
            IN /\ Len(tr.x) = 1 /\ Len(tr.y) = 1
               /\ tr.x[1] \in 0..3 /\ tr.y[1] >= 0
               /\ 4 * tr.y[1] + tr.x[1] = i - 1
               /\ i <= Len(GridTable) => <<tr.x[1], tr.y[1]>> = GridTable[i]
               /\ tr.text = nodes[i][1] /\ tr.marker.color = nodes[i][2]
               /\ \A k \in 1..Len(nodes) :
                     k # i => <<fig.data[k].x, fig.data[k].y>> # <<tr.x, tr.y>>

C6_Witness ==
    /\ pc = "flowchart"
    /\ fig.type = "Figure"
    /\ Len(nodes) = 8
    /\ fig.data[5].x = <<0>> /\ fig.data[5].y = <<1>>
    /\ fig.data[8].x = <<3>> /\ fig.data[8].y = <<1>>


\* The connections leaving a node name, in connection order.
Outgoing(n) == SelectSeq(connections, LAMBDA c : c[1] = n)

\* The line of the bullet of the node at 1-based index i: after the heading,
\* the blank line and the opening fence, the earlier bullets and their arrows.
RECURSIVE BulletLine(_)
BulletLine(i) ==
    IF i = 1 THEN 4
    ELSE BulletLine(i - 1) + 1 + Len(Outgoing(nodes[i - 1][1]))

\* C7: the text is the heading line, the opening fence, then per node in node
\* order its bullet line followed at once by one arrow line per connection
\* whose source is that node, in connection order, then the closing fence.
\* For nodes A, B and the edge A->B: heading, A bullet, arrow to B, B bullet.
C7_TextOrder ==
    pc = "text" =>
        LET L == flowchart_text.lines
        IN /\ flowchart_text.type = "str"
           /\ L[1] = Heading \o title
           /\ L[2] = "" /\ L[3] = Fence
           /\ Len(L) = BulletLine(Len(nodes) + 1)
           /\ L[Len(L)] = Fence
           /\ \A i \in 1..Len(nodes) :
                 LET out == Outgoing(nodes[i][1])
                 IN /\ L[BulletLine(i)] =
                          (IF i = 1 THEN FirstBullet ELSE Bullet) \o nodes[i][1]
                    /\ \A j \in 1..Len(out) : L[BulletLine(i) + j] = Arrow \o out[j][2]
           /\ NodeNames = <<"A", "B">> /\ connections = << <<"A", "B">> >>
                 => L = <<Heading \o title, "", Fence,
                          FirstBullet \o "A", Arrow \o "B", Bullet \o "B", Fence>>

C7_Witness ==
    /\ pc = "text"
    /\ NodeNames = <<"A", "B">>
    /\ connections = << <<"A", "B">> >>
    /\ Len(flowchart_text.lines) = 7

TraceLabels(tr) == IF tr.type = "Pie" THEN tr.labels ELSE tr.x

TraceValues(tr) == IF tr.type = "Pie" THEN tr.values ELSE tr.y

\* C8: with Rich and a kind among bar, line, pie the chart carries exactly the
\* series' labels and values in the series' order (pie on X:10, Y:20 gives
\* labels X, Y and values 10, 20); with no chart backend the value returned is
\* the input series itself, for every kind.
C8_SeriesPreserved ==
    pc = "chart" =>
        /\ PLOTLY_AVAILABLE /\ chart_type \in {"bar", "line", "pie"} =>
              /\ fig.type = "Figure"
              /\ Len(fig.data) = 1
              /\ Len(TraceLabels(fig.data[1])) = Len(data.items)
              /\ Len(TraceValues(fig.data[1])) = Len(data.items)
              /\ \A i \in 1..Len(data.items) :
                    /\ TraceLabels(fig.data[1])[i] = data.items[i][1]
                    /\ TraceValues(fig.data[1])[i] = data.items[i][2]
              /\ chart_type = "pie" /\ data.items = << <<"X", 10>>, <<"Y", 20>> >> =>
                    /\ fig.data[1].labels = <<"X", "Y">>
                    /\ fig.data[1].values = <<10, 20>>
        /\ Backend(module_globals) = "None" => fig = data

C8_Witness ==
    /\ pc = "chart"
    /\ PLOTLY_AVAILABLE
    /\ chart_type = "pie"
    /\ data.items = << <<"X", 10>>, <<"Y", 20>> >>
    /\ fig.type = "Figure"

\* C9 as stated: a chart kind outside bar, line, pie ends in an error and never
\* returns an artifact, whatever the backend.
C9_UnrecognizedKindFails ==
    pc = "chart" /\ chart_type \notin {"bar", "line", "pie"} => fig.type = "raise"

\* The 1-based index of the first node named n.
FirstNamed(n) ==
    CHOOSE i \in 1..Len(nodes) :
        nodes[i][1] = n /\ \A k \in 1..(i - 1) : nodes[k][1] # n

\* The trace at position Len(nodes) + j is the segment of connection j, from
\* the marker of the first node named as its source to the marker of the first
\* node named as its target.
SegmentDrawn(j) ==
    /\ Len(fig.data) >= Len(nodes) + j
    /\ LET tr == fig.data[Len(nodes) + j]
           s == fig.data[FirstNamed(connections[j][1])]
           e == fig.data[FirstNamed(connections[j][2])]
       IN /\ tr.mode = "lines"
          /\ tr.x = <<s.x[1], e.x[1]>>
          /\ tr.y = <<s.y[1], e.y[1]>>

\* C10 as stated: with Rich, in every diagram, every edge whose endpoints both
\* occur in the node list gets its segment, first match to first match.
C10_FirstMatchEveryEdge ==
    Returned /\ PLOTLY_AVAILABLE =>
        \A j \in 1..Len(connections) :
            Resolved(connections[j]) => fig.type = "Figure" /\ SegmentDrawn(j)

\* C10 as amended: with Rich, when every edge of the diagram has both endpoints
\* in the node list, the chart holds the node markers first and then exactly
\* one segment per edge in edge-list order, each from the position of the
\* lowest-index node named as its source to that of the lowest-index node
\* named as its target; when some edge has an endpoint that names no node,
\* StopIteration is raised and no segment of any edge is drawn.
C10_FirstMatchWhenAllResolved ==
    Returned /\ PLOTLY_AVAILABLE =>
        IF AllResolved
        THEN /\ fig.type = "Figure"
             /\ Len(fig.data) = Len(nodes) + Len(connections)
             /\ \A i \in 1..Len(nodes) : fig.data[i].mode = "markers+text"
             /\ \A j \in 1..Len(connections) : SegmentDrawn(j)
        ELSE fig = Raise("StopIteration")

\* Two nodes share a name and two edges are drawn.
C10_Witness ==
    /\ pc = "flowchart"
    /\ PLOTLY_AVAILABLE
    /\ fig.type = "Figure"
    /\ NodeNames = <<"A", "A">>
    /\ Len(connections) = 2


----------------------------------------------------------------------------
(* Properties of a whole render pass, under Spec *)

\* An execution of the script has ended.
RunEnded == pc = "idle" /\ Backend(module_globals) # "unrecorded"

FooterEmitted ==
    /\ Len(displayed) >= Len(FooterCalls)
    /\ \A k \in 1..Len(FooterCalls) :
          LET d == displayed[Len(displayed) - Len(FooterCalls) + k]
          IN d.call = FooterCalls[k].call /\ d.arg = FooterCalls[k].arg

\* C11 as stated: for each of the seven pages and every backend, the render
\* pass ends without raising and with the footer emitted.
C11_EveryPageCompletes ==
    RunEnded =>
        /\ \A i \in 1..Len(displayed) : displayed[i].call # "exception"
        /\ FooterEmitted


----------------------------------------------------------------------------
(* The helpers called one after another on the same arguments *)

InitRepeat ==
    /\ \E e \in StartEnvs : Imported(e)
    /\ nodes \in SeqsUpTo(Names \X {"#1f77b4"}, MaxNodes)
    /\ connections \in SeqsUpTo(Names \X Names, MaxEdges)
    /\ title = "Workflow"
    /\ data \in {NoSeries, Series(<< <<"X", 10>>, <<"Y", 20>> >>)}
    /\ chart_type \in {"bar", "pie"}

\* create_flowchart called a second time with the same diagram, after the
\* text rendering in between.
CallCreateFlowchartAgain ==
    /\ pc = "text"
    /\ fig' = create_flowchart(nodes, connections, title)
    /\ pc' = "again"
    /\ UNCHANGED <<env, sys_modules, module_globals, page, nodes, connections, title,
                   flowchart_text, data, chart_type, displayed>>

\* create_simple_chart called after the flowchart renders.
CallCreateSimpleChartAfter ==
    /\ pc = "again"
    /\ fig' = create_simple_chart(data, chart_type, "Chart")
    /\ pc' = "chart"
    /\ UNCHANGED <<env, sys_modules, module_globals, page, nodes, connections, title,
                   flowchart_text, data, chart_type, displayed>>

NextRepeat ==
    \/ CallCreateFlowchart
    \/ CallCreateTextFlowchart
    \/ CallCreateFlowchartAgain
    \/ CallCreateSimpleChartAfter

SpecRepeat == InitRepeat /\ [][NextRepeat]_vars

----------------------------------------------------------------------------
(* Properties of the flowchart call sites and the literal diagrams, under Spec *)

\* The branch of a project page has called create_flowchart and displayed
\* what it returned.
FlowchartShown == fig.type \in {"Figure", "str"}

\* C13: at every flowchart call site and under every backend, the artifact
\* create_flowchart returned is the one displayed; it goes to st.plotly_chart
\* exactly when it is a chart object and to st.markdown exactly when it is a
\* string.
C13_DisplayMatchesArtifact ==
    FlowchartShown =>
        /\ Len(displayed) >= 1
        /\ displayed[1].call \in {"st.plotly_chart", "st.markdown"}
        /\ displayed[1].arg = fig
        /\ displayed[1].call = "st.plotly_chart" <=> fig.type = "Figure"
        /\ displayed[1].call = "st.markdown" <=> fig.type = "str"

\* The last call site, with matplotlib recorded: the text goes to st.markdown.
C13_Witness ==
    /\ pc = "footer"
    /\ page = Pages[7]
    /\ Backend(module_globals) = "Simple"
    /\ fig.type = "str"
    /\ displayed[1].call = "st.markdown"

\* The lines of the text between the bullet of node i and the next bullet.
ArrowLinesUnder(i) == (BulletLine(i) + 1)..(BulletLine(i + 1) - 1)

\* C14: every literal page diagram has pairwise distinct node names and only
\* edges whose two endpoints name a node of the same diagram; so the lookup
\* in create_flowchart does not fail on a shipped page, and the text fallback
\* prints every edge exactly once, under the bullet of its source.
C14_LiteralDiagramsWellFormed ==
    pc = "footer" =>
        /\ nodes = PageDiagram(page).nodes
        /\ connections = PageDiagram(page).connections
        /\ \A i \in 1..Len(nodes) : \A k \in 1..Len(nodes) :
              i # k => nodes[i][1] # nodes[k][1]
        /\ \A j \in 1..Len(connections) : \A k \in 1..2 :
              \E i \in 1..Len(nodes) : nodes[i][1] = connections[j][k]
        /\ fig.type # "raise"
        /\ fig.type = "Figure" => Len(fig.data) = Len(nodes) + Len(connections)
        /\ fig.type = "str" =>
              /\ Len(fig.lines) = 4 + Len(nodes) + Len(connections)
              /\ \A j \in 1..Len(connections) :
                    Cardinality({i \in ArrowLinesUnder(FirstNamed(connections[j][1])) :
                                    fig.lines[i] = Arrow \o connections[j][2]}) = 1

\* The blog tool page, whose edges are not listed in node order, as text.
C14_Witness ==
    /\ pc = "footer"
    /\ page = Pages[5]
    /\ fig.type = "str"
    /\ Len(nodes) = 8 /\ Len(connections) = 7

====
